---- MODULE Spec2Model ----
(***************************************************************************)
(* peon-ping: the hook dispatcher of src/peon.py.  One process invocation  *)
(* handles one hook event: process_event maps the event, the config file,  *)
(* the persisted state file and the pause marker to a Decision (or None),  *)
(* and main presents the Decision (sound, desktop notification).           *)
(*                                                                         *)
(* Strings that the code takes apart character by character (the working   *)
(* directory, the project name, the message) are sequences of one-char     *)
(* strings.  The em dash (U+2014) is the token "EMDASH", the bullet        *)
(* (U+25CF) the token "BULLET"; a fixed phrase is one token.               *)
(***************************************************************************)
EXTENDS Integers, Sequences, FiniteSets, TLC

\* ------------------------------------------------------------------------
\* Bounds of the model
\* ------------------------------------------------------------------------

\* The clock (time.time(), in whole seconds) runs from 0 to MaxTime.
MaxTime == 2

\* A working directory has at most MaxLen characters.
MaxLen == 3

\* ------------------------------------------------------------------------
\* Values
\* ------------------------------------------------------------------------

Sessions == {"s1", "s2"}

Packs == {"peon", "orc"}

\* The categories that have a config toggle (peon.py:361).
Categories ==
  {"greeting", "acknowledge", "complete", "error", "permission",
   "resource_limit", "annoyed"}

agent_modes == {"delegate"}

PermModes == {"default", "delegate"}

EventNames ==
  {"SessionStart", "UserPromptSubmit", "Stop", "Notification",
   "PermissionRequest", "PreToolUse"}

NotificationTypes == {"permission_prompt", "idle_prompt", "auth_success", ""}

\* Each session runs in one working directory: a POSIX path for s1, and for
\* s2 a Windows path whose last segment holds a character that the project
\* name drops.
CwdOf(s) ==
  IF s = "s1" THEN <<"/", "h", "/", "p">>
  ELSE <<"C", ":", "\\", "x", "$">>

Cwds == { CwdOf(s) : s \in Sessions }

\* The seconds between two invocations: less than the annoyed window, or not.
Gaps == {1, 2}

\* The hook events (the JSON document on stdin).  A key that is missing reads
\* as "" (event_data.get(key, "")); notification_type only matters for
\* Notification events, so the other events carry none.  The agent-marking
\* path is taken before the event name is looked at, so two event names
\* stand for all in the events that carry the permission mode "delegate".
Inputs ==
  { i \in [hook_event_name : EventNames, notification_type : NotificationTypes,
           cwd : Cwds, session_id : Sessions, permission_mode : PermModes] :
      /\ i.hook_event_name = "Notification" \/ i.notification_type = ""
      /\ i.cwd = CwdOf(i.session_id)
      /\ (i.permission_mode = "delegate" =>
            i.hook_event_name \in {"UserPromptSubmit", "PreToolUse"}) }

\* The pack manifests on disk (packs/<pack>/manifest.json): the file names of
\* categories[category]["sounds"], in order.  A category that a manifest does
\* not list has no sounds.
Manifest ==
  [p \in Packs |->
     IF p = "peon"
     THEN [c \in Categories |->
             CASE c = "greeting"   -> <<"g1", "g2">>
               [] c = "complete"   -> <<"c1">>
               [] c = "permission" -> <<"p1", "p2">>
               [] c = "annoyed"    -> <<"a1", "a2">>
               [] OTHER            -> <<>>]
     ELSE [c \in Categories |->
             CASE c = "greeting"   -> <<"g1">>
               [] c = "complete"   -> <<"c1", "c2">>
               [] c = "permission" -> <<>>
               [] c = "annoyed"    -> <<"a1", "a1">>
               [] OTHER            -> <<>>]]

\* The sound files that exist under packs/<pack>/sounds: all that the
\* manifests name but one.
SoundFiles ==
  UNION { { <<p, Manifest[p][c][k]>> : k \in DOMAIN Manifest[p][c] } :
            p \in Packs, c \in Categories } \ { <<"orc", "c2">> }

\* ------------------------------------------------------------------------
\* The config document (config.json)
\* ------------------------------------------------------------------------

AllOn == [c \in Categories |-> TRUE]

Toggles ==
  { AllOn,
    [AllOn EXCEPT !["annoyed"] = FALSE],
    [AllOn EXCEPT !["greeting"] = FALSE, !["complete"] = FALSE,
                  !["permission"] = FALSE] }

Rotations == { <<>>, <<"peon", "orc">>, <<"orc">> }

Thresholds == {2, 3}

Windows == {1, 2}

\* The config that an empty document gives (the defaults of peon.py:351-362).
DefaultConfig ==
  [enabled |-> TRUE, active_pack |-> "peon", pack_rotation |-> <<>>,
   annoyed_threshold |-> 3, annoyed_window_seconds |-> 2,
   categories |-> AllOn]

\* The config documents of the model: the default one with at most one of
\* pack_rotation, annoyed_threshold, annoyed_window_seconds and categories
\* set otherwise; of the disabled ones, the default one and one with a pack
\* rotation.
Configs ==
  { c \in [enabled : BOOLEAN, active_pack : {"peon"},
           pack_rotation : Rotations, annoyed_threshold : Thresholds,
           annoyed_window_seconds : Windows, categories : Toggles] :
      Cardinality({ k \in {"pack_rotation", "annoyed_threshold",
                            "annoyed_window_seconds", "categories"} :
                      c[k] # DefaultConfig[k] }) <= 1
      /\ \/ c.enabled
         \/ c = [DefaultConfig EXCEPT !.enabled = FALSE]
         \/ c = [DefaultConfig EXCEPT !.enabled = FALSE,
                                      !.pack_rotation = <<"peon", "orc">>] }

\* ------------------------------------------------------------------------
\* The state document (.state.json)
\* ------------------------------------------------------------------------

\* A dict is a function on the set of its keys; {} is the empty function.
EmptyDict == <<>>

Get(d, k, default) == IF k \in DOMAIN d THEN d[k] ELSE default

Put(d, k, v) == [x \in (DOMAIN d) \cup {k} |-> IF x = k THEN v ELSE d[x]]

\* A state file that is missing, or lacks a key, reads as this.
EmptyState ==
  [agent_sessions |-> {}, session_packs |-> EmptyDict,
   prompt_timestamps |-> EmptyDict, last_played |-> EmptyDict]

\* ------------------------------------------------------------------------
\* process_event, piece by piece
\* ------------------------------------------------------------------------

\* None, the null Decision.
Null == [null |-> TRUE]

\* A faulty variant: the comparison misses the lower(), so "False" never equals "false".
Enabled_NeverOff(cfg) == TRUE

\* str(cfg.get("enabled", True)).lower() == "false" is the kill switch.
Enabled(cfg) == cfg.enabled

\* cat_enabled[c]
CatEnabled(cfg, c) == cfg.categories[c]

\* random.choice(seq) with the draw r.
Choice(seq, r) == seq[((r - 1) % Len(seq)) + 1]

Range(seq) == { seq[i] : i \in DOMAIN seq }

\* A faulty variant: every permission mode counts as an agent mode.
IsAgentMode_AnyMode(perm_mode) == perm_mode # ""

\* perm_mode and perm_mode in agent_modes
IsAgentMode(perm_mode) == perm_mode # "" /\ perm_mode \in agent_modes

\* A faulty variant: the mark drops the pack pins.
MarkAgent_DropsPins(st, session_id) ==
  [st EXCEPT !.agent_sessions = @ \cup {session_id},
             !.session_packs = EmptyDict]

\* A faulty variant: the mark replaces the set instead of joining it.
MarkAgent_Alone(st, session_id) ==
  [st EXCEPT !.agent_sessions = {session_id}]

\* The agent-marking path: the session joins agent_sessions and the state
\* document is written at once.
MarkAgent(st, session_id) ==
  [st EXCEPT !.agent_sessions = @ \cup {session_id}]

\* A faulty variant: the membership test reads the wrong key of the state.
AgentSuppressed_WrongKey(st, session_id) ==
  session_id \in DOMAIN st.session_packs

\* session_id in agent_sessions
AgentSuppressed(st, session_id) == session_id \in st.agent_sessions

\* A faulty variant: the pin is compared with the first pack of the rotation only.
PinValid_FirstOnly(st, session_id, pack_rotation) ==
  /\ session_id \in DOMAIN st.session_packs
  /\ st.session_packs[session_id] = pack_rotation[1]

\* A faulty variant: a pin is reused whether or not its pack is still in the
\* rotation.
PinValid_AnyPin(st, session_id, pack_rotation) ==
  session_id \in DOMAIN st.session_packs

\* The pinned pack of the session is reused when it is still in the rotation.
PinValid(st, session_id, pack_rotation) ==
  /\ session_id \in DOMAIN st.session_packs
  /\ st.session_packs[session_id] \in Range(pack_rotation)

\* A faulty variant: the pack picked for a session is not stored.
PackRotation_Unrecorded(cfg, st, session_id, r) ==
  [active_pack |-> IF cfg.pack_rotation = <<>> THEN cfg.active_pack
                   ELSE Choice(cfg.pack_rotation, r),
   state |-> st, dirty |-> FALSE]

\* Pack rotation: the active pack, the state in memory, and the dirty flag.
PackRotation(cfg, st, session_id, r) ==
  IF cfg.pack_rotation = <<>>
  THEN [active_pack |-> cfg.active_pack, state |-> st, dirty |-> FALSE]
  ELSE IF PinValid(st, session_id, cfg.pack_rotation)
       THEN [active_pack |-> st.session_packs[session_id], state |-> st,
             dirty |-> FALSE]
       ELSE LET pick == Choice(cfg.pack_rotation, r)
            IN [active_pack |-> pick,
                state |-> [st EXCEPT !.session_packs =
                                        Put(@, session_id, pick)],
                dirty |-> TRUE]

\* The characters that re.sub(r"[^a-zA-Z0-9 ._-]", "", project) keeps.
AllowedChars ==
  {"a", "b", "c", "d", "e", "f", "g", "h", "i", "j", "k", "l", "m", "n", "o",
   "p", "q", "r", "s", "t", "u", "v", "w", "x", "y", "z",
   "A", "B", "C", "D", "E", "F", "G", "H", "I", "J", "K", "L", "M", "N", "O",
   "P", "Q", "R", "S", "T", "U", "V", "W", "X", "Y", "Z",
   "0", "1", "2", "3", "4", "5", "6", "7", "8", "9", " ", ".", "_", "-"}

Claude == <<"c", "l", "a", "u", "d", "e">>

\* cwd.replace("\\", "/")
Normalize(cwd) == [i \in DOMAIN cwd |-> IF cwd[i] = "\\" THEN "/" ELSE cwd[i]]

\* s.rsplit("/", 1)[-1]
LastSegment(s) ==
  LET slashes == { i \in DOMAIN s : s[i] = "/" }
      last == IF slashes = {} THEN 0
              ELSE CHOOSE i \in slashes : \A j \in slashes : j <= i
  IN SubSeq(s, last + 1, Len(s))

KeepAllowed(ch) == ch \in AllowedChars

\* The project name (peon.py:402-407).
Project(cwd) ==
  LET cwd_normalized == Normalize(cwd)
      segment == IF cwd_normalized # <<>> THEN LastSegment(cwd_normalized)
                 ELSE Claude
      project == IF segment = <<>> THEN Claude ELSE segment
  IN SelectSeq(project, KeepAllowed)

Marker == <<"BULLET", " ">>

\* A faulty variant: one space on either side of the dash.
Dash_OneSpace == <<" ", "EMDASH", " ">>

Dash == <<" ", " ", "EMDASH", " ", " ">>

\* A faulty variant: the else branch is missing, every other subtype is an idle prompt.
RouteNotification_NoElse(ntype, project) ==
  IF ntype = "permission_prompt"
  THEN [category |-> "permission", status |-> "needs approval",
        marker |-> <<"BULLET", " ">>, notify |-> TRUE,
        notify_color |-> "red",
        msg |-> project \o <<" ", " ", "EMDASH", " ", " ",
                              "Permission needed">>]
  ELSE [category |-> "", status |-> "done", marker |-> <<"BULLET", " ">>,
        notify |-> TRUE, notify_color |-> "yellow",
        msg |-> project \o <<" ", " ", "EMDASH", " ", " ",
                              "Waiting for input">>]

\* The Notification branch of the event routing (peon.py:441-456).
RouteNotification(ntype, project) ==
  CASE ntype = "permission_prompt" ->
         [category |-> "permission", status |-> "needs approval",
          marker |-> Marker, notify |-> TRUE, notify_color |-> "red",
          msg |-> project \o Dash \o <<"Permission needed">>]
    [] ntype = "idle_prompt" ->
         [category |-> "", status |-> "done", marker |-> Marker,
          notify |-> TRUE, notify_color |-> "yellow",
          msg |-> project \o Dash \o <<"Waiting for input">>]
    [] OTHER -> Null

\* The event routing of peon.py:409-465 without the annoyed detector: what
\* each branch assigns, or Null where the code returns None.
Route(event, ntype, project) ==
  CASE event = "SessionStart" ->
         [category |-> "greeting", status |-> "ready", marker |-> <<>>,
          notify |-> FALSE, notify_color |-> "", msg |-> <<>>]
    [] event = "UserPromptSubmit" ->
         [category |-> "", status |-> "working", marker |-> <<>>,
          notify |-> FALSE, notify_color |-> "", msg |-> <<>>]
    [] event = "Stop" ->
         [category |-> "complete", status |-> "done", marker |-> Marker,
          notify |-> TRUE, notify_color |-> "blue",
          msg |-> project \o Dash \o <<"Task complete">>]
    [] event = "Notification" -> RouteNotification(ntype, project)
    [] event = "PermissionRequest" ->
         [category |-> "permission", status |-> "needs approval",
          marker |-> Marker, notify |-> TRUE, notify_color |-> "red",
          msg |-> project \o Dash \o <<"Permission needed">>]
    [] OTHER -> Null

\* now - t < annoyed_window
InWindow(now, t, annoyed_window) == now - t < annoyed_window

\* A faulty variant: now is put in front of the timestamps that stay.
PrunedPlusNow_NowFirst(old, now, annoyed_window) ==
  LET Recent(t) == InWindow(now, t, annoyed_window)
  IN <<now>> \o SelectSeq(old, Recent)

\* A faulty variant: the timestamps read from the state are dropped.
PrunedPlusNow_OnlyNow(old, now, annoyed_window) == <<now>>

\* The timestamps of the session that stay, then now (peon.py:427-428).
PrunedPlusNow(old, now, annoyed_window) ==
  LET Recent(t) == InWindow(now, t, annoyed_window)
  IN Append(SelectSeq(old, Recent), now)

\* A faulty variant: the comparison is strict.
ThresholdMet_Strict(ts, annoyed_threshold) == Len(ts) > annoyed_threshold

\* len(ts) >= annoyed_threshold
ThresholdMet(ts, annoyed_threshold) == Len(ts) >= annoyed_threshold

\* A faulty variant: the detector does not set the dirty flag.
AnnoyedDetector_Clean(cfg, st, session_id, now) ==
  LET ts == PrunedPlusNow(Get(st.prompt_timestamps, session_id, <<>>), now,
                          cfg.annoyed_window_seconds)
  IN [state |-> [st EXCEPT !.prompt_timestamps = Put(@, session_id, ts)],
      dirty |-> FALSE,
      triggered |-> ThresholdMet(ts, cfg.annoyed_threshold)]

\* The annoyed detector (peon.py:422-433): always dirty.
AnnoyedDetector(cfg, st, session_id, now) ==
  LET ts == PrunedPlusNow(Get(st.prompt_timestamps, session_id, <<>>), now,
                          cfg.annoyed_window_seconds)
  IN [state |-> [st EXCEPT !.prompt_timestamps = Put(@, session_id, ts)],
      dirty |-> TRUE,
      triggered |-> ThresholdMet(ts, cfg.annoyed_threshold)]

\* A faulty variant: the file played last is not excluded.
Candidates_All(sounds, last_file) == sounds

\* candidates = sounds if len(sounds) <= 1 else [s for s in sounds if ...]
Candidates(sounds, last_file) ==
  LET Other(f) == f # last_file
  IN IF Len(sounds) <= 1 THEN sounds ELSE SelectSeq(sounds, Other)

\* A faulty variant: the entries of the other categories are dropped.
RecordPlayed_Alone(st, category, file) ==
  [st EXCEPT !.last_played = Put(EmptyDict, category, file)]

\* A faulty variant: the file selected is not recorded.
RecordPlayed_Forgets(st, category, file) == st

\* last_played[category] = pick["file"]
RecordPlayed(st, category, file) ==
  [st EXCEPT !.last_played = Put(@, category, file)]

\* The sound selection (peon.py:474-488).  random.choice of an empty list
\* raises IndexError, which the except clause swallows: no sound, no mutation.
PickSound(active_pack, category, st, r) ==
  LET sounds == Manifest[active_pack][category]
      last_file == Get(st.last_played, category, "")
      candidates == Candidates(sounds, last_file)
  IN IF sounds = <<>> \/ candidates = <<>>
     THEN [state |-> st, dirty |-> FALSE, sound_file |-> <<>>]
     ELSE LET pick == Choice(candidates, r)
          IN [state |-> RecordPlayed(st, category, pick), dirty |-> TRUE,
              sound_file |-> <<active_pack, pick>>]

\* A faulty variant: an annoyed user is sent a desktop notification.
Override_Notifies(routed, triggered) ==
  IF triggered
  THEN [routed EXCEPT !.category = "annoyed", !.notify = TRUE]
  ELSE routed

\* A faulty variant: the override assigns the status as well.
Override_WithStatus(routed, triggered) ==
  IF triggered
  THEN [routed EXCEPT !.category = "annoyed", !.status = "annoyed"]
  ELSE routed

\* The annoyed override (peon.py:432-433): only category is assigned.
Override(routed, triggered) ==
  IF triggered THEN [routed EXCEPT !.category = "annoyed"] ELSE routed

\* A faulty variant: the toggle of the category is not looked at.
Gate_Open(cfg, category) == category

\* if category and not cat_enabled.get(category, True): category = ""
Gate(cfg, category) ==
  IF category # "" /\ ~CatEnabled(cfg, category) THEN "" ELSE category

\* A faulty variant: the pause marker is not looked at.
SelectsSound_Paused(category, paused) == category # ""

\* if category and not paused
SelectsSound(category, paused) == category # "" /\ ~paused

\* process_event (peon.py:341-506) on the event input_data, with the config
\* document cfg, the state document st, the pause marker, the clock and the
\* two random draws.  The value: the Decision (result), the state document
\* after the call (state) and whether the call wrote it (wrote).  The
\* Decision carries the local variables category and active_pack as well.
process_event(input_data, cfg, st, paused, now, r1, r2) ==
  LET event == input_data.hook_event_name
      ntype == input_data.notification_type
      session_id == input_data.session_id
      perm_mode == input_data.permission_mode
  IN IF ~Enabled(cfg)
     THEN [result |-> Null, state |-> st, wrote |-> FALSE]
     ELSE IF IsAgentMode(perm_mode)
     THEN [result |-> Null, state |-> MarkAgent(st, session_id),
           wrote |-> TRUE]
     ELSE IF AgentSuppressed(st, session_id)
     THEN [result |-> Null, state |-> st, wrote |-> FALSE]
     ELSE
       LET rot == PackRotation(cfg, st, session_id, r1)
           project == Project(input_data.cwd)
           routed == Route(event, ntype, project)
       IN IF routed = Null
          THEN [result |-> Null, state |-> st, wrote |-> FALSE]
          ELSE
            LET det == IF event = "UserPromptSubmit"
                          /\ CatEnabled(cfg, "annoyed")
                       THEN AnnoyedDetector(cfg, rot.state, session_id, now)
                       ELSE [state |-> rot.state, dirty |-> FALSE,
                             triggered |-> FALSE]
                set == Override(routed, det.triggered)
                category == Gate(cfg, set.category)
                snd == IF SelectsSound(category, paused)
                       THEN PickSound(rot.active_pack, category, det.state, r2)
                       ELSE [state |-> det.state, dirty |-> FALSE,
                             sound_file |-> <<>>]
                state_dirty == rot.dirty \/ det.dirty \/ snd.dirty
            IN [result |->
                  [event |-> event, project |-> project,
                   category |-> category, status |-> set.status,
                   marker |-> set.marker, notify |-> set.notify,
                   notify_color |-> set.notify_color, msg |-> set.msg,
                   sound_file |-> snd.sound_file, paused |-> paused,
                   active_pack |-> rot.active_pack],
                state |-> IF state_dirty THEN snd.state ELSE st,
                wrote |-> state_dirty]

\* ------------------------------------------------------------------------
\* The state machine: hook invocations, one after the other, with the user
\* editing the config and using the pause commands in between
\* ------------------------------------------------------------------------

VARIABLES
  config,       \* config.json
  state,        \* .state.json
  paused,       \* whether the marker file .paused exists
  now,          \* the clock
  last,         \* the invocation under way: its event and what it did
  marked,       \* history: the sessions that a delegate event has marked
  selected,     \* history: per category, the file name selected last
  promptLog     \* history: per session, when the prompts were submitted
                \* that an enabled engine with the annoyed toggle on answered

history == <<marked, selected, promptLog>>

vars == <<config, state, paused, now, last, history>>

\* No invocation is under way.
NoCall == [called |-> FALSE]

Init ==
  /\ config = DefaultConfig
  /\ state = EmptyState
  /\ paused = FALSE
  /\ now = 0
  /\ last = NoCall
  /\ marked = {}
  /\ selected = EmptyDict
  /\ promptLog = [s \in Sessions |-> {}]

\* A faulty variant: the notification is sent without the focus check.
Notifies_Unfocused(result, focused) == result.notify /\ ~result.paused

\* if result["notify"] and not paused: if not terminal_is_focused(): ...
Notifies(result, focused) == result.notify /\ ~result.paused /\ ~focused

\* if sound_file and os.path.isfile(sound_file): play_sound(...)
Plays(result) ==
  result.sound_file # <<>> /\ result.sound_file \in SoundFiles

\* The draws of random.choice: an index into the longest sound list, and an
\* index into the list seq.
Draws == {1, 2}

DrawsFor(seq) == IF seq = <<>> THEN {1} ELSE DOMAIN seq

\* main (peon.py:510-570) on a hook event: dt seconds after the invocation
\* before, with the two random draws and, when main asks, the terminal
\* frontmost or not.  The process ends with sys.exit(0) on None and by
\* returning from main otherwise: exit status 0 either way.
Hook(input_data, dt, r1, r2) ==
  /\ ~last.called
  /\ now + dt <= MaxTime
  /\ LET out == process_event(input_data, config, state, paused, now + dt,
                              r1, r2)
         result == out.result
         sid == input_data.session_id
         asked == result # Null /\ result.notify /\ ~result.paused
         prompt == input_data.hook_event_name = "UserPromptSubmit"
     IN \E focused \in IF asked THEN BOOLEAN ELSE {FALSE} :
        /\ state' = out.state
        /\ now' = now + dt
        /\ last' = [called |-> TRUE, input |-> input_data, result |-> result,
                    wrote |-> out.wrote,
                    focus |-> IF ~asked THEN "unasked"
                              ELSE IF focused THEN "front" ELSE "back",
                    notified |-> result # Null /\ Notifies(result, focused),
                    played |-> result # Null /\ Plays(result),
                    exit |-> 0,
                    before |-> state,
                    prev_file |-> IF result # Null
                                  THEN Get(selected, result.category, "")
                                  ELSE ""]
        /\ selected' = IF result # Null /\ result.sound_file # <<>>
                       THEN Put(selected, result.category,
                                result.sound_file[2])
                       ELSE selected
        /\ marked' = IF input_data.permission_mode = "delegate"
                        /\ sid \in out.state.agent_sessions
                     THEN marked \cup {sid} ELSE marked
        /\ promptLog' = IF prompt /\ result # Null
                           /\ config.categories["annoyed"]
                        THEN [promptLog EXCEPT ![sid] = @ \cup {now + dt}]
                        ELSE promptLog
  /\ UNCHANGED <<config, paused>>

\* The process of the invocation exits.
Exit ==
  /\ last.called
  /\ last' = NoCall
  /\ UNCHANGED <<config, state, paused, now, history>>

\* The user edits config.json between two invocations.
EditConfig(cfg) ==
  /\ ~last.called
  /\ cfg # config
  /\ config' = cfg
  /\ UNCHANGED <<state, paused, now, last, history>>

\* peon --pause (peon.py:235-238)
CliPause ==
  /\ ~last.called
  /\ paused' = TRUE
  /\ UNCHANGED <<config, state, now, last, history>>

\* peon --resume (peon.py:239-245)
CliResume ==
  /\ ~last.called
  /\ paused' = FALSE
  /\ UNCHANGED <<config, state, now, last, history>>

\* peon --toggle (peon.py:246-256)
CliToggle ==
  /\ ~last.called
  /\ paused' = ~paused
  /\ UNCHANGED <<config, state, now, last, history>>

Next ==
  \/ \E input_data \in Inputs, dt \in Gaps,
        r1 \in DrawsFor(config.pack_rotation), r2 \in Draws :
       Hook(input_data, dt, r1, r2)
  \/ Exit
  \/ \E cfg \in Configs : EditConfig(cfg)
  \/ CliPause
  \/ CliResume
  \/ CliToggle

Spec == Init /\ [][Next]_vars

\* ------------------------------------------------------------------------
\* Claims
\* ------------------------------------------------------------------------

\* The step is a hook invocation.
Invoked == ~last.called /\ last'.called

\* The invocation under way was for a session that no delegate event had
\* marked, with the engine enabled and a permission mode that is no agent mode.
Answered ==
  /\ last.called
  /\ config.enabled
  /\ last.input.permission_mode \notin agent_modes
  /\ last.input.session_id \notin last.before.agent_sessions

\* C1: once a delegate event has put session S into the persisted
\* agent_sessions, every later invocation for S returns None, whatever the
\* event, the permission mode and the config.
C1_SuppressedForGood ==
  [][(Invoked /\ last'.input.session_id \in marked)
       => last'.result = Null]_vars

\* A Stop event without agent mode, under an enabled config, for a session
\* that an earlier delegate event marked, has returned None.
C1_Witness ==
  /\ last.called
  /\ config.enabled
  /\ last.input.hook_event_name = "Stop"
  /\ last.input.permission_mode = "default"
  /\ last.input.session_id \in marked
  /\ last.result = Null

Recognised(i) ==
  \/ i.hook_event_name \in
       {"SessionStart", "UserPromptSubmit", "Stop", "PermissionRequest"}
  \/ /\ i.hook_event_name = "Notification"
     /\ i.notification_type \in {"permission_prompt", "idle_prompt"}

\* C2: an event whose name is none of the five, or a Notification whose
\* subtype is neither permission_prompt nor idle_prompt (a missing one
\* included), gets None.
C2_UnknownEventNull ==
  (last.called /\ ~Recognised(last.input)) => last.result = Null

\* A Notification without subtype got None from an engine that was enabled,
\* for a session that is not suppressed.
C2_Witness ==
  /\ Answered
  /\ last.input.hook_event_name = "Notification"
  /\ last.input.notification_type = ""
  /\ last.result = Null

\* C3: with enabled=false every invocation returns None and leaves the state
\* document as it is, without writing it, also for a delegate event.
C3_KillSwitch ==
  (last.called /\ ~config.enabled)
    => /\ last.result = Null
       /\ ~last.wrote
       /\ state = last.before

\* A delegate event under enabled=false and a pack rotation: None, and the
\* session is not in agent_sessions.
C3_Witness ==
  /\ last.called
  /\ ~config.enabled
  /\ config.pack_rotation # <<>>
  /\ last.input.permission_mode = "delegate"
  /\ last.result = Null
  /\ last.input.session_id \notin state.agent_sessions

\* The rows of the event table of the spec: category, status, notify, color
\* and the phrase of the message ("" where the row has no message).
TableRow(i) ==
  CASE i.hook_event_name = "SessionStart" ->
         [category |-> "greeting", status |-> "ready", notify |-> FALSE,
          notify_color |-> "", phrase |-> ""]
    [] i.hook_event_name = "UserPromptSubmit" ->
         [category |-> "", status |-> "working", notify |-> FALSE,
          notify_color |-> "", phrase |-> ""]
    [] i.hook_event_name = "Stop" ->
         [category |-> "complete", status |-> "done", notify |-> TRUE,
          notify_color |-> "blue", phrase |-> "Task complete"]
    [] i.hook_event_name = "Notification"
         /\ i.notification_type = "idle_prompt" ->
         [category |-> "", status |-> "done", notify |-> TRUE,
          notify_color |-> "yellow", phrase |-> "Waiting for input"]
    [] OTHER ->
         [category |-> "permission", status |-> "needs approval",
          notify |-> TRUE, notify_color |-> "red",
          phrase |-> "Permission needed"]

\* "{project} sep phrase", or the empty message for a row without phrase.
Message(project, sep, phrase) ==
  IF phrase = "" THEN <<>> ELSE project \o sep \o <<phrase>>

\* The prompts of session s that the detector has seen within the window,
\* the one under way included.
PromptsInWindow(s) ==
  Cardinality({ t \in promptLog[s] : now - t < config.annoyed_window_seconds })

C5_PinnedPackStays ==
  (/\ last.called
   /\ last.input.session_id \in DOMAIN last.before.session_packs
   /\ last.before.session_packs[last.input.session_id]
        \in Range(config.pack_rotation))
    => LET sid == last.input.session_id
           B == last.before.session_packs[sid]
       IN /\ sid \in DOMAIN state.session_packs
          /\ state.session_packs[sid] = B
          /\ last.result # Null => last.result.active_pack = B

\* An invocation for a session pinned to "orc" before, under the rotation
\* peon, orc: the Decision was made with the pack orc.
C5_Witness ==
  /\ last.called
  /\ config.pack_rotation = <<"peon", "orc">>
  /\ last.input.session_id \in DOMAIN last.before.session_packs
  /\ last.before.session_packs[last.input.session_id] = "orc"
  /\ last.result # Null
  /\ last.result.active_pack = "orc"

C7_OverrideOnlyCategory ==
  (/\ last.called
   /\ last.input.hook_event_name = "UserPromptSubmit"
   /\ last.result # Null)
    => /\ last.result.status = "working"
       /\ ~last.result.notify
       /\ last.result.marker = <<>>
       /\ last.result.notify_color = ""
       /\ last.result.msg = <<>>
       /\ ~last.notified

\* A UserPromptSubmit that triggered the override: annoyed, working.
C7_Witness ==
  /\ last.called
  /\ last.input.hook_event_name = "UserPromptSubmit"
  /\ last.result # Null
  /\ last.result.category = "annoyed"
  /\ last.result.status = "working"

\* The sound list that the Decision d was resolved against.
SoundList(d) == Manifest[d.active_pack][d.category]

\* C8: a selection for a category whose sound list has two or more distinct
\* file names never returns the file name that the selection before it
\* returned for that category, whichever session that one was for; with a
\* list of exactly one file, every selection returns that file.
C8_NoImmediateRepeat ==
  (last.called /\ last.result # Null)
    => LET d == last.result
       IN /\ (d.sound_file # <<>> /\ Cardinality(Range(SoundList(d))) >= 2)
               => d.sound_file[2] # last.prev_file
          /\ (d.category # "" /\ ~paused /\ Len(SoundList(d)) = 1)
               => d.sound_file = <<d.active_pack, SoundList(d)[1]>>

\* A selection from a list of two files for a category that had a selection
\* before: the other file.
C8_Witness ==
  /\ last.called
  /\ last.result # Null
  /\ last.result.sound_file # <<>>
  /\ Cardinality(Range(SoundList(last.result))) >= 2
  /\ last.prev_file \in Range(SoundList(last.result))
  /\ last.result.sound_file[2] # last.prev_file

\* C9: when the toggle of the category that an event resolves to is off, the
\* Decision has no sound file, and its status, marker, notify, color and
\* message are those that the same event gets, from the same state, with
\* that toggle on.
C9_DisabledCategory ==
  last.called
    => \A c \in Categories :
         LET on == process_event(last.input,
                                 [config EXCEPT !.categories[c] = TRUE],
                                 last.before, paused, now, 1, 1).result
             d == last.result
         IN (~config.categories[c] /\ on # Null /\ on.category = c)
              => /\ d # Null
                 /\ d.sound_file = <<>>
                 /\ ~last.played
                 /\ d.status = on.status
                 /\ d.marker = on.marker
                 /\ d.notify = on.notify
                 /\ d.notify_color = on.notify_color
                 /\ d.msg = on.msg

\* A Stop event with the complete toggle off and no pause marker: no sound,
\* and the notification of the event table was sent.
C9_Witness ==
  /\ Answered
  /\ last.input.hook_event_name = "Stop"
  /\ ~config.categories["complete"]
  /\ ~paused
  /\ last.result # Null
  /\ last.result.sound_file = <<>>
  /\ last.result.status = "done"
  /\ last.notified

\* Some sound of the list can be chosen after the file name prev.
Offers(sounds, prev) ==
  \/ Len(sounds) = 1
  \/ \E k \in DOMAIN sounds : sounds[k] # prev

\* C10: every invocation consults the pause marker.  One that finds it
\* present selects no sound and sends no desktop notification, whatever the
\* event and the config; one that finds it absent selects a sound whenever
\* the category is not empty and its list offers one, and sends the
\* notification whenever notify is set and the terminal is not frontmost.
C10_PauseMarker ==
  last.called
    => /\ paused => (~last.played /\ ~last.notified)
       /\ last.result # Null
            => LET d == last.result
               IN /\ d.paused = paused
                  /\ paused => d.sound_file = <<>>
                  /\ ~paused =>
                       /\ (/\ d.category # ""
                           /\ Offers(SoundList(d), last.prev_file))
                            => d.sound_file # <<>>
                       /\ (d.notify /\ last.focus = "back")
                            => last.notified

\* A Stop event that found the marker: the Decision asks for a notification
\* and has a category with sounds, but no sound was selected and no
\* notification sent.
C10_Witness ==
  /\ Answered
  /\ paused
  /\ last.input.hook_event_name = "Stop"
  /\ last.result # Null
  /\ last.result.notify
  /\ last.result.category = "complete"
  /\ last.result.sound_file = <<>>
  /\ ~last.notified

\* C11: main starts a desktop notification only for a Decision with notify
\* set, taken without the pause marker, after the focus check said that the
\* terminal is not frontmost; it plays audio only for a Decision with a
\* sound file; for None it does neither, and the process exits with status 0.
C11_Presentation ==
  last.called
    => /\ last.notified
            => /\ last.result # Null
               /\ last.result.notify
               /\ ~paused
               /\ last.focus = "back"
       /\ last.played => (last.result # Null /\ last.result.sound_file # <<>>)
       /\ last.result = Null
            => (~last.notified /\ ~last.played /\ last.exit = 0)

\* A Stop event with the terminal frontmost: the sound was played, the
\* notification that the Decision asks for was not sent.
C11_Witness ==
  /\ Answered
  /\ ~paused
  /\ last.input.hook_event_name = "Stop"
  /\ last.result # Null
  /\ last.result.notify
  /\ last.focus = "front"
  /\ last.played
  /\ ~last.notified

\* ------------------------------------------------------------------------
\* The files as the engine finds them, and the engine's reads and writes
\* ------------------------------------------------------------------------

\* What config.json or .state.json holds, as json.load(open(path)) takes it:
\* no file to open (missing or unreadable), text that is no JSON (an empty
\* or truncated file included), JSON that is no object (such as []), or a
\* JSON object.
Missing == [file |-> "missing"]

NotJson == [file |-> "not_json"]

NotObject == [file |-> "not_object"]

Object(d) == [file |-> "object", doc |-> d]

\* A config object whose annoyed_threshold is a string that is no number
\* (such as "many"); d holds its other keys.
BadThreshold(d) == [file |-> "bad_threshold", doc |-> d]

\* An exception leaves process_event.
Raised == [raised |-> TRUE]

\* peon.py:345-362.  open and json.load are inside try/except, which gives
\* {} and with it the defaults.  What follows is not: cfg.get on a value
\* that is no dict raises AttributeError (351), int() of a string that is
\* no number raises ValueError (357, after the enabled check).
ConfigOf(cf) ==
  CASE cf.file \in {"missing", "not_json"} -> DefaultConfig
    [] cf.file = "not_object" -> Raised
    [] cf.file = "bad_threshold" ->
         IF Enabled(cf.doc) THEN Raised ELSE cf.doc
    [] OTHER -> cf.doc

\* A faulty variant: the read of the state file is not guarded, so that a
\* file that is no JSON raises.
StateOf_Unguarded(sf) ==
  IF sf.file = "object" THEN sf.doc
  ELSE IF sf.file = "missing" THEN EmptyState ELSE Raised

\* peon.py:372-381.  open and json.load are inside try/except, which gives
\* {}; state.get on a value that is no dict raises AttributeError (381).
StateOf(sf) ==
  CASE sf.file \in {"missing", "not_json"} -> EmptyState
    [] sf.file = "not_object" -> Raised
    [] OTHER -> sf.doc

\* How a write of the state file ends: well; with an error of os.makedirs
\* or open (no permission), which leaves the file as it was; or with an error
\* of json.dump or of the close (disk full) after open has truncated the file.
WriteOutcomes == {"ok", "open_fails", "dump_fails"}

\* json.dump(state, open(STATE, "w")) (peon.py:386, 493)
WriteFile(sf, doc, wf) ==
  CASE wf = "ok" -> Object(doc)
    [] wf = "open_fails" -> sf
    [] OTHER -> NotJson

\* process_event (peon.py:341-506) with its reads of the two files and its
\* write of the state file, neither write being inside a try/except.
process_event_io(input_data, cf, sf, paused_, now_, r1, r2, wf) ==
  LET cfg == ConfigOf(cf)
  IN IF cfg = Raised
     THEN [result |-> Raised, state |-> sf, wrote |-> FALSE]
     ELSE IF ~Enabled(cfg)
     THEN [result |-> Null, state |-> sf, wrote |-> FALSE]
     ELSE LET st == StateOf(sf)
          IN IF st = Raised
             THEN [result |-> Raised, state |-> sf, wrote |-> FALSE]
             ELSE LET out == process_event(input_data, cfg, st, paused_,
                                           now_, r1, r2)
                  IN IF ~out.wrote
                     THEN [result |-> out.result, state |-> sf,
                           wrote |-> FALSE]
                     ELSE [result |-> IF wf = "ok" THEN out.result
                                      ELSE Raised,
                           state |-> WriteFile(sf, out.state, wf),
                           wrote |-> TRUE]

\* ------------------------------------------------------------------------
\* The state machine with damaged files and failing writes: invocations one
\* after the other; in between, the files are replaced from outside
\* ------------------------------------------------------------------------

FaultInputs ==
  { i \in Inputs :
      i.hook_event_name \in {"UserPromptSubmit", "Stop", "PreToolUse"} }

FaultConfigs ==
  { cfg \in Configs : cfg.annoyed_threshold = 3 /\ cfg.categories = AllOn
                      /\ cfg.annoyed_window_seconds = 2
                      /\ cfg.pack_rotation \in {<<>>, <<"peon", "orc">>} }

InitFaults ==
  /\ config = Object(DefaultConfig)
  /\ state = Object(EmptyState)
  /\ paused = FALSE
  /\ now = 0
  /\ last = NoCall
  /\ marked = {}
  /\ selected = EmptyDict
  /\ promptLog = [s \in Sessions |-> {}]

\* main (peon.py:510-570) on a hook event.  An exception that leaves
\* process_event leaves main too: nothing is played or sent, and the process
\* ends with a traceback and exit status 1.
HookIO(input_data, dt, r1, r2, wf) ==
  /\ ~last.called
  /\ now + dt <= MaxTime
  /\ LET out == process_event_io(input_data, config, state, paused, now + dt,
                                 r1, r2, wf)
         result == out.result
         decided == result # Null /\ result # Raised
         asked == decided /\ result.notify /\ ~result.paused
     IN \E focused \in IF asked THEN BOOLEAN ELSE {FALSE} :
        /\ state' = out.state
        /\ now' = now + dt
        /\ last' = [called |-> TRUE, input |-> input_data, result |-> result,
                    wrote |-> out.wrote, wf |-> wf, r1 |-> r1, r2 |-> r2,
                    notified |-> decided /\ Notifies(result, focused),
                    played |-> decided /\ Plays(result),
                    exit |-> IF result = Raised THEN 1 ELSE 0,
                    before |-> state]
  /\ UNCHANGED <<config, paused, history>>

\* config.json is written from outside: by the user, or by the installer.
WriteConfig(cfg) ==
  /\ ~last.called
  /\ config # Object(cfg)
  /\ config' = Object(cfg)
  /\ UNCHANGED <<state, paused, now, last, history>>

\* config.json is deleted, damaged, or written with a wrong shape or type.
DamageConfig(cf) ==
  /\ ~last.called
  /\ config # cf
  /\ config' = cf
  /\ UNCHANGED <<state, paused, now, last, history>>

\* .state.json is deleted, damaged, or written with a wrong shape.
DamageState(sf) ==
  /\ ~last.called
  /\ state # sf
  /\ state' = sf
  /\ UNCHANGED <<config, paused, now, last, history>>

NextFaults ==
  \/ \E input_data \in FaultInputs, dt \in Gaps, r1 \in Draws, r2 \in Draws,
        wf \in WriteOutcomes :
       HookIO(input_data, dt, r1, r2, wf)
  \/ Exit
  \/ \E cfg \in FaultConfigs : WriteConfig(cfg)
  \/ \E cf \in {Missing, NotJson, NotObject, BadThreshold(DefaultConfig)} :
       DamageConfig(cf)
  \/ \E sf \in {Missing, NotJson, NotObject} : DamageState(sf)

SpecFaults == InitFaults /\ [][NextFaults]_vars

\* C12: with a state file that is missing, unreadable or malformed (no JSON,
\* or JSON of another shape than the expected), process_event raises no
\* error and returns what it returns with an empty state document.
C12_StateFailOpen ==
  (/\ last.called
   /\ last.before.file # "object"
   /\ ConfigOf(config) # Raised
   /\ last.wf = "ok")
    => /\ last.result # Raised
       /\ last.result =
            process_event_io(last.input, config, Object(EmptyState), paused,
                             now, last.r1, last.r2, "ok").result

\* C13: a write of the state file that fails, on the agent-marking path or
\* at the end of the invocation, is swallowed: process_event raises no error
\* and returns the Decision (or None) that it returns when the write goes
\* well.
C13_WriteFailureSwallowed ==
  (last.called /\ last.wrote /\ last.wf # "ok")
    => /\ last.result # Raised
       /\ last.result =
            process_event_io(last.input, config, last.before, paused, now,
                             last.r1, last.r2, "ok").result

\* C14: with a config file that is missing, unreadable or malformed (no
\* JSON, or a value of the wrong shape or type), process_event behaves as
\* with an empty config, which is the default config, and the invocation
\* does not fail.
C14_ConfigFailOpen ==
  (/\ last.called
   /\ config.file # "object"
   /\ last.before.file # "not_object"
   /\ last.wf = "ok")
    => /\ last.result # Raised
       /\ last.result =
            process_event_io(last.input, Object(DefaultConfig), last.before,
                             paused, now, last.r1, last.r2, "ok").result

\* ------------------------------------------------------------------------
\* The state machine with overlapping invocations.  The hook processes share
\* .state.json without a lock.  An invocation reads the file once
\* (peon.py:372-376) and writes it at most once, in two steps
\* (json.dump(state, open(STATE, "w")), peon.py:386 and 493): open truncates
\* the file, and the document is in the file when the file object is closed.
\* In this machine `last` holds the invocations under way, one per process.
\* ------------------------------------------------------------------------

Procs == {1, 2}

\* Events of the three kinds that write the state (a timestamp, a sound
\* played, an agent mark) or select a sound.
ConcInputs ==
  { i \in Inputs :
      i.hook_event_name \in {"SessionStart", "UserPromptSubmit", "Stop"} }

Idle == [pc |-> "idle"]

\* The process has read the state file and has not finished its write.
Writing(p) == last.proc[p].pc \in {"open", "dump"}

\* The process has taken its Decision.
Computed(p) == last.proc[p].pc # "idle"

\* In this machine the history variables record what reached the file:
\* marked holds the session ids that some written document had in
\* agent_sessions, promptLog the timestamps that some written document had
\* for the session, and selected the file name selected last per category.
InitConc ==
  /\ config = Object(DefaultConfig)
  /\ state = Object(EmptyState)
  /\ paused = FALSE
  /\ now = 0
  /\ last = [proc |-> [p \in Procs |-> Idle], overlapped |-> FALSE]
  /\ marked = {}
  /\ selected = EmptyDict
  /\ promptLog = [s \in Sessions |-> {}]

\* peon.py:341-489: process p starts on a hook event, loads the config,
\* reads the state file as it is at this moment, and takes its Decision.  It
\* goes on to write if the agent-marking path is taken or the state is dirty.
\* The invocation overlaps if another process is between its read and the
\* end of its write.
Read(p, input_data, r2) ==
  /\ last.proc[p].pc = "idle"
  /\ now + 1 <= MaxTime
  /\ LET cfg == ConfigOf(config)
         st == StateOf(state)
         out == IF st = Raised
                THEN [result |-> Raised, state |-> EmptyState, wrote |-> FALSE]
                ELSE process_event(input_data, cfg, st, paused, now + 1, 1, r2)
         result == out.result
         sound == result # Null /\ result # Raised /\ result.sound_file # <<>>
     IN /\ last' =
             [proc |-> [last.proc EXCEPT ![p] =
                [pc |-> IF out.wrote THEN "open" ELSE "done",
                 input |-> input_data, saw |-> state.file, read |-> st,
                 result |-> result, doc |-> out.state, wrote |-> out.wrote,
                 garbled |-> FALSE,
                 prev_file |-> IF sound
                               THEN Get(selected, result.category, "")
                               ELSE ""]],
              overlapped |-> last.overlapped
                               \/ \E q \in Procs \ {p} : Writing(q)]
        /\ selected' = IF sound
                       THEN Put(selected, result.category,
                                result.sound_file[2])
                       ELSE selected
  /\ now' = now + 1
  /\ UNCHANGED <<config, state, paused, marked, promptLog>>

\* open(STATE, "w") truncates the file: until the document is written, the
\* file holds no JSON.
Open(p) ==
  /\ last.proc[p].pc = "open"
  /\ state' = NotJson
  /\ last' = [last EXCEPT !.proc[p].pc = "dump"]
  /\ UNCHANGED <<config, paused, now, history>>

\* json.dump and the close of the file object: the document of process p is
\* written from the start of the file.  If another process has written its
\* document since p opened the file, and that document is the longer one,
\* its end stays behind that of p, and the file holds no JSON.
Dump(p) ==
  /\ last.proc[p].pc = "dump"
  /\ \E whole \in IF last.proc[p].garbled THEN BOOLEAN ELSE {TRUE} :
       LET doc == last.proc[p].doc
       IN /\ state' = IF whole THEN Object(doc) ELSE NotJson
          /\ marked' = IF whole THEN marked \cup doc.agent_sessions
                       ELSE marked
          /\ promptLog' =
               IF whole
               THEN [s \in Sessions |->
                       promptLog[s]
                         \cup Range(Get(doc.prompt_timestamps, s, <<>>))]
               ELSE promptLog
  /\ last' =
       [last EXCEPT !.proc =
          [q \in Procs |->
             IF q = p THEN [last.proc[p] EXCEPT !.pc = "done"]
             ELSE IF last.proc[q].pc = "dump"
                  THEN [last.proc[q] EXCEPT !.garbled = TRUE]
                  ELSE last.proc[q]]]
  /\ UNCHANGED <<config, paused, now, selected>>

\* The process exits.
ExitProc(p) ==
  /\ last.proc[p].pc = "done"
  /\ last' = [last EXCEPT !.proc[p] = Idle]
  /\ UNCHANGED <<config, state, paused, now, history>>

NextConc ==
  \/ \E p \in Procs, input_data \in ConcInputs, r2 \in Draws :
       Read(p, input_data, r2)
  \/ \E p \in Procs : Open(p)
  \/ \E p \in Procs : Dump(p)
  \/ \E p \in Procs : ExitProc(p)

SpecConc == InitConc /\ [][NextConc]_vars

\* The timestamps that the state file holds for session s.
Persisted(s) ==
  IF state.file = "object"
  THEN Range(Get(state.doc.prompt_timestamps, s, <<>>)) ELSE {}

\* The timestamps written for session s that are still inside the window.
Fresh(s) ==
  { t \in promptLog[s] :
      now - t < ConfigOf(config).annoyed_window_seconds }

\* Process p has selected a sound from a list of two or more distinct files.
Selected(p) ==
  /\ Computed(p)
  /\ last.proc[p].result # Null
  /\ last.proc[p].result # Raised
  /\ last.proc[p].result.sound_file # <<>>
  /\ Cardinality(Range(SoundList(last.proc[p].result))) >= 2

C16_OnlyGrows ==
  state.file = "object" => marked \subseteq state.doc.agent_sessions

\* C16, amended: as long as no invocation has overlapped with another, a
\* session id that a written document had in agent_sessions is in
\* agent_sessions of every document that the file holds later.
C16_GrowsWithoutOverlap ==
  (~last.overlapped /\ state.file = "object")
    => marked \subseteq state.doc.agent_sessions

\* Without overlap, an invocation for s2 that is no delegate event has read
\* a document that marks s1 and has written one that still marks s1.
C16_Witness ==
  \E p \in Procs :
    /\ ~last.overlapped
    /\ last.proc[p].pc = "done"
    /\ last.proc[p].wrote
    /\ last.proc[p].input.session_id = "s2"
    /\ last.proc[p].input.permission_mode = "default"
    /\ "s1" \in last.proc[p].read.agent_sessions
    /\ state = Object(last.proc[p].doc)
    /\ "s1" \in state.doc.agent_sessions

\* C18, as claimed: a timestamp written for session S that is still inside
\* the window is among the timestamps that the file holds for S, also when
\* invocations overlap.
C18_NeverLost ==
  state.file = "object" => \A s \in Sessions : Fresh(s) \subseteq Persisted(s)

\* C18, amended: as long as no invocation has overlapped with another, a
\* timestamp written for session S that is still inside the window is among
\* the timestamps that the file holds for S, so that the next
\* UserPromptSubmit of S counts it.
C18_KeptWithoutOverlap ==
  (~last.overlapped /\ state.file = "object")
    => \A s \in Sessions : Fresh(s) \subseteq Persisted(s)

\* Without overlap, the second prompt of s1 inside the window has read the
\* timestamp of the first and has written both.
C18_Witness ==
  \E p \in Procs :
    /\ ~last.overlapped
    /\ last.proc[p].pc = "done"
    /\ last.proc[p].input.hook_event_name = "UserPromptSubmit"
    /\ last.proc[p].input.session_id = "s1"
    /\ Get(last.proc[p].read.prompt_timestamps, "s1", <<>>) # <<>>
    /\ Cardinality(Fresh("s1")) >= 2
    /\ Cardinality(Persisted("s1")) >= 2

\* C19, as claimed: a selection from a list of two or more distinct files
\* never returns the file name that the selection before it returned for
\* the category, also when the two invocations overlap.
C19_NoRepeat ==
  \A p \in Procs :
    Selected(p)
      => last.proc[p].result.sound_file[2] # last.proc[p].prev_file

\* C19, amended: as long as no invocation has overlapped with another, a
\* selection from a list of two or more distinct files never returns the
\* file name that the selection before it returned for the category.
C19_NoRepeatWithoutOverlap ==
  \A p \in Procs :
    (~last.overlapped /\ Selected(p))
      => last.proc[p].result.sound_file[2] # last.proc[p].prev_file

\* Without overlap, a selection from a list of two files after a selection
\* for the same category: the other file.
C19_Witness ==
  \E p \in Procs :
    /\ ~last.overlapped
    /\ Selected(p)
    /\ last.proc[p].prev_file \in Range(SoundList(last.proc[p].result))
    /\ last.proc[p].result.sound_file[2] # last.proc[p].prev_file

\* ------------------------------------------------------------------------
\* Claims on the pack pin and on the write of the state, for invocations one
\* after the other
\* ------------------------------------------------------------------------

\* The state document d pins session s to a pack of the rotation.
Pinned(d, s) ==
  /\ s \in DOMAIN d.session_packs
  /\ d.session_packs[s] \in Range(config.pack_rotation)

AgentMarked ==
  /\ last.called
  /\ config.enabled
  /\ last.input.permission_mode \in agent_modes

\* The invocation under way picked a new pack pin for its session.
NewPin ==
  /\ Answered
  /\ config.pack_rotation # <<>>
  /\ ~Pinned(last.before, last.input.session_id)

\* The invocation under way recorded a prompt timestamp.
TimestampRecorded ==
  /\ Answered
  /\ last.input.hook_event_name = "UserPromptSubmit"
  /\ config.categories["annoyed"]

\* The invocation under way selected a sound, and with it a last_played
\* entry.
SoundRecorded ==
  /\ last.called
  /\ last.result # Null
  /\ last.result.sound_file # <<>>

\* C20, as claimed: an invocation writes the state document exactly when
\* some component mutated the state: an agent mark, a new pack pin, a
\* prompt timestamp, or a last_played entry.
C20_WritesWhenMutated ==
  last.called
    => (last.wrote
          <=> (AgentMarked \/ NewPin \/ TimestampRecorded \/ SoundRecorded))

\* C20, amended: an invocation writes the state document on the
\* agent-marking path, and otherwise exactly when it returns a Decision and
\* some component mutated the state; an invocation that returns None
\* outside the agent-marking path does not write, also when it has picked a
\* new pack pin.  An invocation that does not write leaves the document as
\* it was.
C20_WritesWhenDecided ==
  last.called
    => /\ last.wrote
            <=> \/ AgentMarked
                \/ /\ last.result # Null
                   /\ (NewPin \/ TimestampRecorded \/ SoundRecorded)
       /\ ~last.wrote => state = last.before
       /\ (last.result = Null /\ ~AgentMarked) => ~last.wrote

\* A prompt with the annoyed toggle off, the pin of its session in place
\* and no sound to select: no write.  (The other way round is the witness of
\* C17: a write for a new pin.)
C20_Witness ==
  /\ Answered
  /\ last.input.hook_event_name = "UserPromptSubmit"
  /\ ~config.categories["annoyed"]
  /\ last.result # Null
  /\ ~last.wrote
  /\ state = last.before

\* ------------------------------------------------------------------------
\* Claims on what an invocation leaves alone
\* ------------------------------------------------------------------------

\* C21, as claimed: an invocation for an unknown event name or an
\* unrecognised Notification subtype leaves the state document as it was,
\* whatever its session id, its permission mode and the config.
C21_UnknownNoEffect ==
  (last.called /\ ~Recognised(last.input))
    => (state = last.before /\ ~last.wrote)

\* C21, amended: an invocation for an unknown event name or an unrecognised
\* Notification subtype leaves the state document as it was and does not
\* write it, unless the engine is enabled and the permission mode is an
\* agent mode: then it marks the session and writes, as for any event.
C21_UnknownNoEffectButMark ==
  (last.called /\ ~Recognised(last.input))
    => IF AgentMarked
       THEN /\ last.wrote
            /\ state.agent_sessions
                 = last.before.agent_sessions \cup {last.input.session_id}
       ELSE state = last.before /\ ~last.wrote

\* An unknown event for a session without pin under a pack rotation, by
\* an enabled engine: None, and the document as it was.
C21_Witness ==
  /\ Answered
  /\ ~Recognised(last.input)
  /\ last.input.hook_event_name = "PreToolUse"
  /\ config.pack_rotation # <<>>
  /\ last.input.session_id \notin DOMAIN last.before.session_packs
  /\ last.result = Null
  /\ state = last.before

\* C22: under an enabled config, an event with the permission mode delegate
\* adds its session to agent_sessions, writes the state and returns None,
\* with session_packs, prompt_timestamps and last_played as they were; an
\* event with another permission mode for a session in agent_sessions
\* returns None and does not write.
C22_AgentPath ==
  (last.called /\ config.enabled)
    => LET sid == last.input.session_id
       IN /\ last.input.permission_mode = "delegate"
               => /\ last.result = Null
                  /\ last.wrote
                  /\ state.agent_sessions
                       = last.before.agent_sessions \cup {sid}
                  /\ state.session_packs = last.before.session_packs
                  /\ state.prompt_timestamps = last.before.prompt_timestamps
                  /\ state.last_played = last.before.last_played
          /\ (/\ last.input.permission_mode # "delegate"
              /\ sid \in last.before.agent_sessions)
               => /\ last.result = Null
                  /\ ~last.wrote
                  /\ state = last.before

\* A delegate event for a session that had a pack pin: the session is
\* marked, the pin is as it was.
C22_Witness ==
  /\ last.called
  /\ config.enabled
  /\ last.input.permission_mode = "delegate"
  /\ last.input.session_id \in DOMAIN last.before.session_packs
  /\ last.input.session_id \notin last.before.agent_sessions
  /\ last.input.session_id \in state.agent_sessions
  /\ state.session_packs = last.before.session_packs

\* C23: under a non-empty pack_rotation the pack of a Decision is a member
\* of the rotation; a pin that is no member any more is replaced in that
\* very invocation by a member, which is stored in session_packs[S].  Under
\* an empty pack_rotation the pack is the config's active_pack and no
\* invocation modifies session_packs.
C23_ActivePackInRotation ==
  last.called
    => /\ (last.result # Null /\ config.pack_rotation # <<>>)
            => LET sid == last.input.session_id
               IN /\ last.result.active_pack \in Range(config.pack_rotation)
                  /\ sid \in DOMAIN state.session_packs
                  /\ state.session_packs[sid] = last.result.active_pack
       /\ config.pack_rotation = <<>>
            => /\ state.session_packs = last.before.session_packs
               /\ last.result # Null
                    => last.result.active_pack = config.active_pack

\* A session pinned to peon, under the rotation orc: the Decision is made
\* with orc, and the session is pinned to orc.
C23_Witness ==
  /\ last.called
  /\ last.result # Null
  /\ config.pack_rotation = <<"orc">>
  /\ last.input.session_id \in DOMAIN last.before.session_packs
  /\ last.before.session_packs[last.input.session_id] = "peon"
  /\ last.result.active_pack = "orc"
  /\ state.session_packs[last.input.session_id] = "orc"

\* The timestamps that the document d holds for session s.
Timestamps(d, s) == Get(d.prompt_timestamps, s, <<>>)

\* The timestamps of the sequence ts that are younger than the window.
Younger(ts) ==
  LET Young(t) == now - t < config.annoyed_window_seconds
  IN SelectSeq(ts, Young)

\* C24, as claimed: on every UserPromptSubmit for session S, whatever the
\* category toggles, the stored timestamps of S are those of before that are
\* younger than the window, then the current time, and the lists of the
\* other sessions are as they were.
C24_RecordedOnEveryPrompt ==
  (Answered /\ last.input.hook_event_name = "UserPromptSubmit")
    => LET sid == last.input.session_id
       IN /\ Timestamps(state, sid)
               = Append(Younger(Timestamps(last.before, sid)), now)
          /\ \A s \in Sessions \ {sid} :
               Timestamps(state, s) = Timestamps(last.before, s)

\* C24, amended: on a UserPromptSubmit for session S with the annoyed toggle
\* on, the stored timestamps of S are those of before that are younger than
\* the window, then the current time, so that all of them lie within the
\* window and the last is the current time, and the state is written; with
\* the annoyed toggle off the timestamps of S are as they were.  The lists
\* of the other sessions are as they were after every invocation.
C24_RecordedWhenToggleOn ==
  last.called
    => LET sid == last.input.session_id
           ts == Timestamps(state, sid)
       IN /\ (/\ Answered
              /\ last.input.hook_event_name = "UserPromptSubmit"
              /\ config.categories["annoyed"])
               => /\ ts = Append(Younger(Timestamps(last.before, sid)), now)
                  /\ \A k \in DOMAIN ts :
                       now - ts[k] < config.annoyed_window_seconds
                  /\ ts[Len(ts)] = now
                  /\ last.wrote
          /\ (/\ Answered
              /\ last.input.hook_event_name = "UserPromptSubmit"
              /\ ~config.categories["annoyed"])
               => state.prompt_timestamps = last.before.prompt_timestamps
          /\ \A s \in Sessions \ {sid} :
               Timestamps(state, s) = Timestamps(last.before, s)

\* A prompt of s1 that found a timestamp of s1 as old as the window: the
\* old one is gone, the current time is stored.
C24_Witness ==
  /\ Answered
  /\ last.input.hook_event_name = "UserPromptSubmit"
  /\ last.input.session_id = "s1"
  /\ config.categories["annoyed"]
  /\ Timestamps(last.before, "s1") # <<>>
  /\ Timestamps(state, "s1") = <<now>>

PathChars == {"/", "\\", "p", "$"}

WorkingDirs == UNION { [1..n -> PathChars] : n \in 0..MaxLen }

\* Before the event with the working directory cwd is handled.
InitProject ==
  /\ config = DefaultConfig
  /\ state = EmptyState
  /\ paused = FALSE
  /\ now = 0
  /\ last \in { [called |-> FALSE, cwd |-> cwd] : cwd \in WorkingDirs }
  /\ marked = {}
  /\ selected = EmptyDict
  /\ promptLog = [s \in Sessions |-> {}]

\* peon.py:402-407 on the working directory of the event.
DeriveProject ==
  /\ ~last.called
  /\ last' = [called |-> TRUE, cwd |-> last.cwd,
              project |-> Project(last.cwd)]
  /\ UNCHANGED <<config, state, paused, now, history>>

NextProject == DeriveProject

SpecProject == InitProject /\ [][NextProject]_vars

\* The last path segment of cwd, under either separator.
Segment(cwd) ==
  LET seps == { i \in DOMAIN cwd : cwd[i] \in {"/", "\\"} }
      from == IF seps = {} THEN 1
              ELSE 1 + CHOOSE i \in seps : \A j \in seps : j <= i
  IN SubSeq(cwd, from, Len(cwd))

\* The letters, digits, space, dot, underscore and hyphen of the sequence.
Kept(seq) ==
  LET Ok(ch) == ch \notin {"/", "\\", "$"}
  IN SelectSeq(seq, Ok)

\* C26: the project name is the last path segment of the working directory
\* without the characters outside letters, digits, space, dot, underscore
\* and hyphen, and "claude" when that is empty; it is never empty.
C26_ProjectName ==
  last.called
    => /\ last.project = IF Kept(Segment(last.cwd)) = <<>> THEN Claude
                         ELSE Kept(Segment(last.cwd))
       /\ last.project # <<>>

\* ------------------------------------------------------------------------
\* The steps of main and of its two background threads.  In this machine
\* `last` holds the hook process: where main is, its Decision, and the state
\* of the update-check thread and of the notification thread.
\* ------------------------------------------------------------------------

MainInputs ==
  { i \in Inputs :
      /\ i.permission_mode = "default"
      /\ i.hook_event_name \in {"SessionStart", "Stop", "PreToolUse"} }

NoProcess == [pc |-> "idle"]

InitMain ==
  /\ config = DefaultConfig
  /\ state = EmptyState
  /\ paused = FALSE
  /\ now = 0
  /\ last = NoProcess
  /\ marked = {}
  /\ selected = EmptyDict
  /\ promptLog = [s \in Sessions |-> {}]

\* peon.py:512-519: the host starts the process with the event on stdin;
\* main computes the Decision, and exits at once if there is none.
Decide(input_data, r2) ==
  /\ last.pc = "idle"
  /\ now + 1 <= MaxTime
  /\ LET out == process_event(input_data, config, state, paused, now + 1,
                              1, r2)
     IN /\ state' = out.state
        /\ last' = [pc |-> IF out.result = Null THEN "exited" ELSE "decided",
                    result |-> out.result, updater |-> "none",
                    notifier |-> "none", timed_out |-> FALSE]
  /\ now' = now + 1
  /\ UNCHANGED <<config, paused, history>>

\* peon.py:524-527: on SessionStart the update check is started as a daemon
\* thread, which main never joins.
StartUpdateCheck ==
  /\ last.pc = "decided"
  /\ last' = [last EXCEPT
                !.pc = "presenting",
                !.updater = IF last.result.event = "SessionStart"
                            THEN "running" ELSE "none"]
  /\ UNCHANGED <<config, state, paused, now, history>>

\* peon.py:529-560: the update notice, the tab title, and play_sound, which
\* starts the player without waiting for it.
Present ==
  /\ last.pc = "presenting"
  /\ last' = [last EXCEPT !.pc = "asking"]
  /\ UNCHANGED <<config, state, paused, now, history>>

\* peon.py:562-566: the focus check (bounded by its timeout of 3 seconds),
\* and the start of the notification thread if the terminal is not
\* frontmost.
StartNotification(focused) ==
  /\ last.pc = "asking"
  /\ last' = IF Notifies(last.result, focused)
             THEN [last EXCEPT !.pc = "joining", !.notifier = "running"]
             ELSE [last EXCEPT !.pc = "exited"]
  /\ UNCHANGED <<config, state, paused, now, history>>

\* A faulty variant: the join has no timeout.
JoinReturns_Unbounded(notifier) == notifier = "done"

\* notification_thread.join(timeout=12) returns when the thread has ended,
\* and after 12 seconds in any case.
JoinReturns(notifier) == notifier = "done" \/ notifier = "running"

\* peon.py:568-570: the bounded wait for the notification thread, after
\* which main returns and the process exits, its daemon threads with it.
Join ==
  /\ last.pc = "joining"
  /\ JoinReturns(last.notifier)
  /\ last' = [last EXCEPT !.pc = "exited",
                          !.timed_out = last.notifier # "done"]
  /\ UNCHANGED <<config, state, paused, now, history>>

\* check_for_updates returns (peon.py:187-225); it need not.
UpdateCheckEnds ==
  /\ last.pc \in {"presenting", "asking", "joining"}
  /\ last.updater = "running"
  /\ last' = [last EXCEPT !.updater = "done"]
  /\ UNCHANGED <<config, state, paused, now, history>>

\* _notify returns (peon.py:92-162); it need not: its loop that claims a
\* popup slot goes on as long as os.mkdir fails.
NotificationEnds ==
  /\ last.pc = "joining"
  /\ last.notifier = "running"
  /\ last' = [last EXCEPT !.notifier = "done"]
  /\ UNCHANGED <<config, state, paused, now, history>>

\* The process is gone; the host may start the next.
Reap ==
  /\ last.pc = "exited"
  /\ last' = NoProcess
  /\ UNCHANGED <<config, state, paused, now, history>>

NextMain ==
  \/ \E input_data \in MainInputs, r2 \in Draws : Decide(input_data, r2)
  \/ StartUpdateCheck
  \/ Present
  \/ \E focused \in BOOLEAN : StartNotification(focused)
  \/ Join
  \/ UpdateCheckEnds
  \/ NotificationEnds
  \/ Reap

\* The main thread takes its steps; the background threads need not end.
SpecMain ==
  /\ InitMain
  /\ [][NextMain]_vars
  /\ WF_vars(StartUpdateCheck)
  /\ WF_vars(Present)
  /\ WF_vars(\E focused \in BOOLEAN : StartNotification(focused))
  /\ WF_vars(Join)

\* The process is running.
Running == last.pc \notin {"idle", "exited"}

\* C27: every hook invocation terminates: a process that has its Decision
\* exits, whether or not the update check and the notification thread end;
\* and no background thread exists before the Decision is there.
C27_Terminates ==
  /\ [](last.pc # "idle" =>
          (last.pc = "exited" \/ last.result # Null)
          /\ (last.pc = "decided" =>
                last.updater = "none" /\ last.notifier = "none"))
  /\ (Running ~> last.pc = "exited")

\* The process has exited after the timeout of the join, with the
\* notification thread still running.
C27_Witness ==
  /\ last.pc = "exited"
  /\ last.result # Null
  /\ last.timed_out
  /\ last.notifier = "running"

\* ------------------------------------------------------------------------
\* Claims on what the Decision depends on
\* ------------------------------------------------------------------------

\* The fields of a Decision that the event alone is said to fix.
EventFields(result) ==
  IF result = Null THEN Null
  ELSE [status |-> result.status, marker |-> result.marker,
        notify |-> result.notify, notify_color |-> result.notify_color,
        msg |-> result.msg]

\* The same event given to an engine with the default config, an empty
\* state document and no pause marker.
Reference(input_data) ==
  process_event(input_data, DefaultConfig, EmptyState, FALSE, 0, 1, 1).result

\* C28: for a session that is not agent-suppressed and an enabled config,
\* status, marker, notify, notify_color and msg of the Decision are those
\* that the same event gets under the default config, the empty state and no
\* pause marker, whatever the state document, the pack configuration, the
\* category toggles and the pause marker of the invocation are; and the
\* invocation returns None exactly if that one does.  Any two invocations
\* given the same event hence agree on the five fields.
C28_EventAlone ==
  Answered => EventFields(last.result) = EventFields(Reference(last.input))

\* A prompt that the detector turned into the annoyed category, with the
\* pause marker present and a state document that is not the empty one: the
\* status is still that of a prompt.
C28_Witness ==
  /\ Answered
  /\ last.result # Null
  /\ last.result.category = "annoyed"
  /\ paused
  /\ last.before # EmptyState
  /\ config # DefaultConfig
  /\ last.result.status = "working"

\* ------------------------------------------------------------------------
\* The installer's update of the hook settings (install.py:253-290)
\* ------------------------------------------------------------------------

\* The user adds at most MaxEntries hook entries to settings.json by hand.
MaxEntries == 3

\* A command is a sequence of words; `sub in command` looks for a word.
In(sub, command) == \E i \in 1..Len(command) : command[i] = sub

PLATFORMS == {"windows", "linux"}

\* hook_cmd (install.py:266-270): "python <INSTALL_DIR>/peon.py" on Windows,
\* "<HOME>/.claude/hooks/peon-ping/peon.sh" elsewhere.
hook_cmd(PLATFORM) ==
  IF PLATFORM = "windows" THEN <<"python ", "peon-ping/", "peon.py">>
  ELSE <<"peon-ping/", "peon.sh">>

\* An entry of settings.json is modelled by the commands of its hooks, in
\* order (hk.get("command", "") is the empty command for a hook without
\* one, h.get("hooks", []) the empty sequence for an entry without hooks);
\* matcher, type and timeout play no part in the update.
peon_entry(PLATFORM) == <<hook_cmd(PLATFORM)>>

\* The entries a user writes: a linter, an entry without hooks, a hook
\* without a command, the old notify.sh, and a linter together with the peon
\* script in one entry.
UserEntries ==
  { << <<"hooks/", "lint.sh">> >>,
    <<>>,
    << <<>> >>,
    << <<"hooks/", "notify.sh">> >>,
    << <<"hooks/", "lint.sh">>, <<"peon-ping/", "peon.sh">> >> }

\* events (install.py:282)
events ==
  <<"SessionStart", "UserPromptSubmit", "Stop", "Notification",
    "PermissionRequest">>

InstallEvents == { events[i] : i \in 1..Len(events) }

\* The events under which the user writes entries.
EditedEvents == {"SessionStart", "Stop"}

\* A faulty variant: entries that run peon.py are not looked for.
References_NoPy(h) ==
  \E i \in 1..Len(h) : In("notify.sh", h[i]) \/ In("peon.sh", h[i])

\* The condition of the filter (install.py:287-292): some hook of the entry
\* has notify.sh, peon.sh or peon.py in its command.
References(h) ==
  \E i \in 1..Len(h) :
    In("notify.sh", h[i]) \/ In("peon.sh", h[i]) \/ In("peon.py", h[i])

\* The body of the loop (install.py:284-295) on the entries of one event.
UpdatedHooks(event_hooks, PLATFORM) ==
  LET Stays(h) == ~References(h)
  IN Append(SelectSeq(event_hooks, Stays), peon_entry(PLATFORM))

NotInstalled == [installed |-> FALSE]

\* No settings.json, or one without hooks: hooks.get(event, []) is empty for
\* every event.  The variable state holds the hooks of settings.json, now the
\* number of entries the user has written.
InitInstall ==
  /\ config = DefaultConfig
  /\ state = [event \in InstallEvents |-> <<>>]
  /\ paused = FALSE
  /\ now = 0
  /\ last = NotInstalled
  /\ marked = {}
  /\ selected = EmptyDict
  /\ promptLog = [s \in Sessions |-> {}]

\* The installer runs to the end (install.py:253-298).
Install(PLATFORM) ==
  /\ state' = [event \in InstallEvents |-> UpdatedHooks(state[event], PLATFORM)]
  /\ last' = [installed |-> TRUE, PLATFORM |-> PLATFORM, before |-> state]
  /\ UNCHANGED <<config, paused, now, history>>

\* The user appends an entry to the hooks of an event.
UserAdds(event, h) ==
  /\ now < MaxEntries
  /\ state' = [state EXCEPT ![event] = Append(@, h)]
  /\ now' = now + 1
  /\ last' = NotInstalled
  /\ UNCHANGED <<config, paused, history>>

NextInstall ==
  \/ \E PLATFORM \in PLATFORMS : Install(PLATFORM)
  \/ \E event \in EditedEvents, h \in UserEntries : UserAdds(event, h)

SpecInstall == InitInstall /\ [][NextInstall]_vars

\* The entry runs the peon hook: a hook of it has peon.sh or peon.py in its
\* command.
RunsPeon(h) ==
  \E i \in 1..Len(h) : In("peon.sh", h[i]) \/ In("peon.py", h[i])

\* The entry references none of notify.sh, peon.sh and peon.py.
Foreign(h) ==
  \A i \in 1..Len(h) :
    ~In("notify.sh", h[i]) /\ ~In("peon.sh", h[i]) /\ ~In("peon.py", h[i])

\* C29: after the installer has updated the hook settings, each of the five
\* events has exactly one entry that runs the peon hook and that entry is the
\* last one; the entries in front of it are the entries from before that
\* reference none of notify.sh, peon.sh and peon.py, in their order; and
\* installing once more on the same platform leaves the settings as they are.
C29_OnePeonEntry ==
  /\ [](last.installed =>
          \A event \in InstallEvents :
            LET event_hooks == state[event]
                n == Len(event_hooks)
            IN /\ Cardinality({ i \in 1..n : RunsPeon(event_hooks[i]) }) = 1
               /\ n >= 1
               /\ RunsPeon(event_hooks[n])
               /\ SubSeq(event_hooks, 1, n - 1)
                    = SelectSeq(last.before[event], Foreign))
  /\ [][(last.installed /\ last'.installed
           /\ last'.PLATFORM = last.PLATFORM) => state' = state]_vars

\* The installer ran on settings that an earlier run on the other platform
\* and the user had written: under Stop a linter, the peon entry of the
\* earlier run, then an entry without hooks.
C29_Witness ==
  /\ last.installed
  /\ last.PLATFORM = "linux"
  /\ last.before["Stop"]
       = << << <<"hooks/", "lint.sh">> >>, peon_entry("windows"), <<>> >>
  /\ state["Stop"] = << << <<"hooks/", "lint.sh">> >>, <<>>, peon_entry("linux") >>

\* ------------------------------------------------------------------------
\* The pause commands of the command line (peon.py:229-262)
\* ------------------------------------------------------------------------

\* sys.argv[1] of the commands that are modelled; --packs and --pack, which
\* list the packs and write active_pack into the config, are not.
Commands == {"--pause", "--resume", "--toggle", "--status", "--help"}

\* The three files under PEON_DIR, as a record.
Files(cf, sf, marker) == [config |-> cf, state |-> sf, paused |-> marker]

\* open(PAUSED_FILE, "w").close()
Touched(files) == [files EXCEPT !.paused = TRUE]

\* os.remove(PAUSED_FILE), which raises OSError if the file is missing; the
\* error is passed over.
Removed(files) == [files EXCEPT !.paused = FALSE]

\* A faulty variant: --toggle does what --pause does.
handle_cli_TogglePauses(cmd, files) ==
  IF cmd \in {"--pause", "--toggle"}
  THEN [files |-> Touched(files), out |-> "peon-ping: sounds paused"]
  ELSE [files |-> Removed(files), out |-> "peon-ping: sounds resumed"]

\* handle_cli (peon.py:229-262, 318-329) on the command cmd: the files after
\* it and the line it prints.
handle_cli(cmd, files) ==
  CASE cmd = "--pause" ->
         [files |-> Touched(files), out |-> "peon-ping: sounds paused"]
    [] cmd = "--resume" ->
         [files |-> Removed(files), out |-> "peon-ping: sounds resumed"]
    [] cmd = "--toggle" ->
         IF files.paused
         THEN [files |-> Removed(files), out |-> "peon-ping: sounds resumed"]
         ELSE [files |-> Touched(files), out |-> "peon-ping: sounds paused"]
    [] cmd = "--status" ->
         IF files.paused
         THEN [files |-> files, out |-> "peon-ping: paused"]
         ELSE [files |-> files, out |-> "peon-ping: active"]
    [] OTHER -> [files |-> files, out |-> "Usage: peon <command>"]

\* The state documents that the commands may find.
CliStates ==
  { EmptyState,
    [EmptyState EXCEPT !.agent_sessions = {"s1"}],
    [EmptyState EXCEPT !.prompt_timestamps = Put(EmptyDict, "s1", <<1>>)] }

NoCommand == [cmd |-> "none", prev |-> "none", before |-> FALSE, out |-> ""]

\* The commands find any config, any of the state documents and the marker
\* present or absent.
InitCli ==
  /\ config \in Configs
  /\ state \in CliStates
  /\ paused \in BOOLEAN
  /\ now = 0
  /\ last = NoCommand
  /\ marked = {}
  /\ selected = EmptyDict
  /\ promptLog = [s \in Sessions |-> {}]

\* peon <cmd>: handle_cli runs and the process exits.  last keeps the
\* command, the command before it, and whether the marker was there.
RunCli(cmd) ==
  LET r == handle_cli(cmd, Files(config, state, paused))
  IN /\ config' = r.files.config
     /\ state' = r.files.state
     /\ paused' = r.files.paused
     /\ last' = [cmd |-> cmd, prev |-> last.cmd, before |-> paused,
                 out |-> r.out]
     /\ UNCHANGED <<now, history>>

NextCli == \E cmd \in Commands : RunCli(cmd)

SpecCli == InitCli /\ [][NextCli]_vars

\* C30: after --pause the marker is present and after --resume it is absent,
\* whatever it was before; --toggle leaves the opposite of what it found,
\* and a second --toggle right after it leaves what the first one found;
\* --status prints whether the marker is there and leaves it as it is; and
\* no step of --pause, --resume, --toggle or --status changes the state
\* document or the config.
C30_PauseToggle ==
  /\ [](/\ last.cmd = "--pause" => paused
        /\ last.cmd = "--resume" => ~paused
        /\ last.cmd = "--toggle" => paused = ~last.before
        /\ last.cmd = "--status" =>
             /\ paused = last.before
             /\ last.out = IF paused THEN "peon-ping: paused"
                           ELSE "peon-ping: active")
  /\ [][/\ (last.cmd = "--toggle" /\ last'.cmd = "--toggle")
             => paused' = last.before
        /\ last'.cmd \in {"--pause", "--resume", "--toggle", "--status"}
             => config' = config /\ state' = state]_vars

\* The second of two toggles in a row has put the marker back, next to a
\* state document and a config that are not the empty ones.
C30_Witness ==
  /\ last.cmd = "--toggle"
  /\ last.prev = "--toggle"
  /\ paused
  /\ state # EmptyState
  /\ config # DefaultConfig

\* ------------------------------------------------------------------------
\* The popup slots of the notification threads (peon.py:107-160)
\* ------------------------------------------------------------------------

\* The hook processes whose notification threads run at overlapping times on
\* Windows or WSL, one thread a process.
MaxTasks == 3

Tasks == 1..MaxTasks

\* How subprocess.run of the popup command ends: it returns, it raises
\* (the command cannot be started), or it raises TimeoutExpired.
Outcomes == {"returns", "fails", "times out"}

\* A faulty variant: an existing directory counts as created, as under
\* os.makedirs(..., exist_ok=True).
Mkdir_ExistOk(dirs, slot) == [created |-> TRUE, dirs |-> dirs \cup {slot}]

\* os.mkdir(slot_path) on the directories dirs under slot_dir: in one step
\* it creates the directory, or raises OSError where it exists.
Mkdir(dirs, slot) ==
  IF slot \in dirs THEN [created |-> FALSE, dirs |-> dirs]
  ELSE [created |-> TRUE, dirs |-> dirs \cup {slot}]

\* os.rmdir(slot_path)
Rmdir(dirs, slot) == dirs \ {slot}

NotStarted == [pc |-> "idle", slot |-> 0, held |-> FALSE, outcome |-> ""]

\* The variable state holds the indices of the directories slot-<n> under
\* slot_dir, last the position of each thread, marked the slots that have
\* been released.
InitSlots ==
  /\ config = DefaultConfig
  /\ state = {}
  /\ paused = FALSE
  /\ now = 0
  /\ last = [t \in Tasks |-> NotStarted]
  /\ marked = {}
  /\ selected = EmptyDict
  /\ promptLog = [s \in Sessions |-> {}]

\* _notify starts: slot = 0 (peon.py:108-111).
StartNotify(t) ==
  /\ last[t].pc = "idle"
  /\ last' = [last EXCEPT ![t].pc = "claiming"]
  /\ UNCHANGED <<config, state, paused, now, history>>

\* One turn of the loop of peon.py:112-118.
ClaimSlot(t) ==
  /\ last[t].pc = "claiming"
  /\ LET r == Mkdir(state, last[t].slot)
     IN /\ state' = r.dirs
        /\ last' = IF r.created
                   THEN [last EXCEPT ![t].pc = "showing", ![t].held = TRUE]
                   ELSE [last EXCEPT ![t].slot = @ + 1]
  /\ UNCHANGED <<config, paused, now, history>>

\* subprocess.run(..., timeout=10) of the popup command ends
\* (peon.py:150-155); the finally clause comes next.
PopupEnds(t, outcome) ==
  /\ last[t].pc = "showing"
  /\ last' = [last EXCEPT ![t].pc = "releasing", ![t].outcome = outcome]
  /\ UNCHANGED <<config, state, paused, now, history>>

\* The finally clause (peon.py:156-160).
ReleaseSlot(t) ==
  /\ last[t].pc = "releasing"
  /\ state' = Rmdir(state, last[t].slot)
  /\ last' = [last EXCEPT ![t].pc = "done", ![t].held = FALSE]
  /\ marked' = marked \cup {last[t].slot}
  /\ UNCHANGED <<config, paused, now, selected, promptLog>>

\* The process exits while its daemon thread is under way (main returns
\* after join(timeout=12), or the host ends the hook): the thread stops
\* where it is and a directory it made stays.
ProcessExits(t) ==
  /\ last[t].pc \in {"claiming", "showing", "releasing"}
  /\ last' = [last EXCEPT ![t].pc = "killed"]
  /\ UNCHANGED <<config, state, paused, now, history>>

NextSlots ==
  \/ \E t \in Tasks : StartNotify(t)
  \/ \E t \in Tasks : ClaimSlot(t)
  \/ \E t \in Tasks, outcome \in Outcomes : PopupEnds(t, outcome)
  \/ \E t \in Tasks : ReleaseSlot(t)
  \/ \E t \in Tasks : ProcessExits(t)

SpecSlots == InitSlots /\ [][NextSlots]_vars

\* The popup of the thread is on the screen.
Displayed(t) == last[t].pc = "showing"

\* C31: two threads never hold the same slot, so two popups on the screen
\* at the same time have different slot indices; the slot a thread holds is
\* a directory that exists, and every directory is held by a thread (so the
\* slot of a thread whose popup command returned, failed or timed out and
\* whose finally clause ran is free again); a thread claims the slot it is
\* at exactly if the directory is not there, and moves to the next one
\* otherwise, starting at 0.
C31_DistinctSlots ==
  /\ [](/\ \A t, u \in Tasks :
             (t # u /\ last[t].held /\ last[u].held)
               => last[t].slot # last[u].slot
        /\ \A t, u \in Tasks :
             (t # u /\ Displayed(t) /\ Displayed(u))
               => last[t].slot # last[u].slot
        /\ \A t \in Tasks : Displayed(t) => last[t].held
        /\ state = { last[t].slot : t \in { u \in Tasks : last[u].held } }
        /\ \A t \in Tasks : last[t].pc = "done" => ~last[t].held)
  /\ [][\A t \in Tasks :
          (last[t].pc = "claiming" /\ last'[t] # last[t]
             /\ last'[t].pc # "killed")
            => IF last[t].slot \in state
               THEN last'[t].pc = "claiming"
                    /\ last'[t].slot = last[t].slot + 1
               ELSE last'[t].held /\ last'[t].slot = last[t].slot]_vars

\* Two popups are on the screen at slots 0 and 1, and slot 0 is one that an
\* earlier thread held and released after its popup command timed out.
C31_Witness ==
  \E t, u, v \in Tasks :
    /\ Displayed(t) /\ last[t].slot = 0
    /\ Displayed(u) /\ last[u].slot = 1
    /\ last[v].pc = "done" /\ last[v].slot = 0
    /\ last[v].outcome = "times out"
    /\ 0 \in marked

====
